---- MODULE Spec2Model ----
\* Model of os_sandbox/node.py: the Node class (record on disk, libvirt domain
\* of the node's name, create / start / stop / status), with the libvirt
\* driver and the filesystem as nondeterministic collaborators.
EXTENDS Integers, Sequences, FiniteSets, TLC

\* ---------------------------------------------------------------- bounds
NumUuids == 2
\* ranges of the records and network lists the descriptor is built from
MaxVcpu == 2
MaxRam == 2
MaxNets == 2
\* domain state codes 0..MaxStateCode; codes above VIR_DOMAIN_PMSUSPENDED are
\* values state_code_map has no key for
MaxStateCode == 8

\* ------------------------------------------------------ program constants
VIR_DOMAIN_NOSTATE == 0
VIR_DOMAIN_RUNNING == 1
VIR_DOMAIN_BLOCKED == 2
VIR_DOMAIN_PAUSED == 3
VIR_DOMAIN_SHUTDOWN == 4
VIR_DOMAIN_SHUTOFF == 5
VIR_DOMAIN_CRASHED == 6
VIR_DOMAIN_PMSUSPENDED == 7
\* <source network='default'/> of the descriptor template
DefaultNet == 0
\* libvirt error codes: the one status tests for, and some other one
VIR_ERR_NO_DOMAIN == 42
VIR_ERR_INTERNAL_ERROR == 1

STATUS_UNDEFINED == "UNDEFINED"
STATUS_UP == "UP"
STATUS_ERROR == "ERROR"
STATUS_DOWN == "DOWN"

\* ------------------------------------------------------------ value sets
NodeName == "node"
Uuids == 1..NumUuids
Resources == [vcpu : 1..MaxVcpu, ram_mb : 1..MaxRam]
NoResources == [vcpu |-> 0, ram_mb |-> 0]
\* node_conf blocks handed to create(): resources, services, image reference
ConfAlpha == [resources |-> [vcpu |-> 2, ram_mb |-> 1024], services |-> "svc", image |-> "base"]
ConfBeta == [resources |-> [vcpu |-> 1, ram_mb |-> 512], services |-> "svc", image |-> "base"]
NodeConfs == {ConfAlpha, ConfBeta}
\* the records a loaded Node object can hold
Records == [uuid : Uuids, resources : Resources, services : {"svc"}, image : {"base"}]

\* attributes of a Node object that _fill / create assign; 0 / "unset" stand
\* for an attribute the object does not have
NoFields == [uuid |-> 0, resources |-> NoResources, services |-> "unset", image |-> "unset"]

\* content of config.yaml
NoFile == [kind |-> "absent", uuid |-> 0, resources |-> NoResources, services |-> "unset", image |-> "unset"]
PartialFile == [NoFile EXCEPT !.kind = "partial"]

\* the hypervisor's domain of the node's name
NoDomain == [defined |-> FALSE, state |-> 0]
Domain(s) == [defined |-> TRUE, state |-> s]
DomVals == {NoDomain} \cup {Domain(s) : s \in 0..MaxStateCode}

\* what a read-only query (lookupByName + info) hands back to its caller
NoAns == [kind |-> "none", code |-> 0]
Ans(k, c) == [kind |-> k, code |-> c]

\* outcomes of the driver's calls. A query (open, lookupByName, info) goes
\* wrong at one of its calls at most: open returns None or raises, lookup
\* returns None or raises an error other than no-domain, info raises
\* no-domain (the domain has gone) or another error
QueryOutcomes == {"ok", "conn_none", "conn_err", "lookup_none", "lookup_err",
                  "info_err", "info_gone"}
StartOutcomes == {"ok", "conn_none", "conn_err", "create_none", "create_err"}
StopOutcomes == {"ok", "ok_kept", "conn_none", "conn_err", "lookup_none",
                 "lookup_err", "destroy_err"}
CreateOutcomes == {"ok", "mkdir", "image", "open", "write"}
LoadOutcomes == {"ok", "io", "image"}

\* dirExists, conf: the node directory and its config.yaml
\* dom: the hypervisor's domain of the node's name
\* error, fields: self.error is not None, and the attributes of the Node object
\* pc, cur: where the object's call in flight stands, and what it has done
\* last: the record of the call that has just completed
\* createdOK: whether a create() of this name has returned without raising
\* networks: sandbox.networks, as the sequence of the networks' slugs
VARIABLES dirExists, conf, dom, error, fields, pc, cur, last, createdOK, networks

vars == <<dirExists, conf, dom, error, fields, pc, cur, last, createdOK, networks>>

\* ------------------------------------------------------- pure operators
\* Node.exists: os.path.exists(conf_path)
Exists(c) == c.kind # "absent"

\* Image(parsed_args, ref): name and resolved path of an image reference
Image(ref) == [name |-> ref, image_path |-> <<"images", ref>>]

\* Node.get_info + yaml.dump: the mapping written to config.yaml
GetInfo(f) ==
    [kind |-> "record", uuid |-> f.uuid, resources |-> f.resources,
     services |-> f.services, image |-> Image(f.image).name]

\* Node._fill: attributes after loading file c with load outcome ld; err is
\* whether an exception left _fill
Fill(c, ld) ==
    IF ld = "io" \/ c.kind # "record"
    THEN [fields |-> NoFields, err |-> TRUE]
    ELSE IF ld = "image"
    THEN [fields |-> [NoFields EXCEPT !.uuid = c.uuid, !.resources = c.resources,
                                      !.services = c.services],
          err |-> TRUE]
    ELSE [fields |-> [uuid |-> c.uuid, resources |-> c.resources,
                      services |-> c.services, image |-> c.image],
          err |-> FALSE]

\* _get_conn with its two branches the wrong way round
GetConnSwapped(readonly) == IF readonly THEN "rw" ELSE "ro"

\* Node._get_conn: the kind of connection it opens, "ro" by
\* libvirt.openReadOnly and "rw" by libvirt.open
GetConn(readonly) == IF readonly THEN "ro" ELSE "rw"

\* _get_conn(readonly) then conn.lookupByName(name) then dom.info()[0] on
\* hypervisor domain d, the driver behaving as o says. ans is the state code
\* or the exception that leaves the caller's try block; opened counts the
\* connections opened and conn the kind of the one opened (status and
\* started() call _get_domain() with readonly left at its default, True);
\* fault is whether the driver failed for a reason other than the domain not
\* existing.
Query(d, o) ==
    IF o = "conn_none"
    THEN [ans |-> Ans("exception", 0), opened |-> 0, conn |-> "none", contact |-> TRUE, fault |-> TRUE]
    ELSE IF o = "conn_err"
    THEN [ans |-> Ans("libvirtError", VIR_ERR_INTERNAL_ERROR), opened |-> 0, conn |-> "none", contact |-> TRUE, fault |-> TRUE]
    ELSE IF o = "lookup_err"
    THEN [ans |-> Ans("libvirtError", VIR_ERR_INTERNAL_ERROR), opened |-> 1, conn |-> GetConn(TRUE), contact |-> TRUE, fault |-> TRUE]
    ELSE IF ~d.defined
    THEN [ans |-> Ans("libvirtError", VIR_ERR_NO_DOMAIN), opened |-> 1, conn |-> GetConn(TRUE), contact |-> TRUE, fault |-> FALSE]
    ELSE IF o = "lookup_none"
    THEN [ans |-> Ans("exception", 0), opened |-> 1, conn |-> GetConn(TRUE), contact |-> TRUE, fault |-> TRUE]
    ELSE IF o = "info_err"
    THEN [ans |-> Ans("libvirtError", VIR_ERR_INTERNAL_ERROR), opened |-> 1, conn |-> GetConn(TRUE), contact |-> TRUE, fault |-> TRUE]
    ELSE IF o = "info_gone"
    THEN [ans |-> Ans("libvirtError", VIR_ERR_NO_DOMAIN), opened |-> 1, conn |-> GetConn(TRUE), contact |-> TRUE, fault |-> TRUE]
    ELSE [ans |-> Ans("state", d.state), opened |-> 1, conn |-> GetConn(TRUE), contact |-> TRUE, fault |-> FALSE]

\* the answer reduced to its case: "state", "nodomain", "lverr", "exception"
AnsTag(a) ==
    IF a.kind = "libvirtError"
    THEN IF a.code = VIR_ERR_NO_DOMAIN THEN "nodomain" ELSE "lverr"
    ELSE a.kind

NoQuery == [ans |-> NoAns, opened |-> 0, conn |-> "none", contact |-> FALSE, fault |-> FALSE]

\* state_code_map with the PMSUSPENDED entry given the NOSTATE entry's value
state_code_map_slip ==
    (VIR_DOMAIN_NOSTATE :> STATUS_UNDEFINED) @@
    (VIR_DOMAIN_RUNNING :> STATUS_UP) @@
    (VIR_DOMAIN_BLOCKED :> STATUS_UP) @@
    (VIR_DOMAIN_PAUSED :> STATUS_UP) @@
    (VIR_DOMAIN_SHUTDOWN :> STATUS_DOWN) @@
    (VIR_DOMAIN_SHUTOFF :> STATUS_DOWN) @@
    (VIR_DOMAIN_CRASHED :> STATUS_ERROR) @@
    (VIR_DOMAIN_PMSUSPENDED :> STATUS_UNDEFINED)

\* state_code_map of Node.status
state_code_map ==
    (VIR_DOMAIN_NOSTATE :> STATUS_UNDEFINED) @@
    (VIR_DOMAIN_RUNNING :> STATUS_UP) @@
    (VIR_DOMAIN_BLOCKED :> STATUS_UP) @@
    (VIR_DOMAIN_PAUSED :> STATUS_UP) @@
    (VIR_DOMAIN_SHUTDOWN :> STATUS_DOWN) @@
    (VIR_DOMAIN_SHUTOFF :> STATUS_DOWN) @@
    (VIR_DOMAIN_CRASHED :> STATUS_ERROR) @@
    (VIR_DOMAIN_PMSUSPENDED :> STATUS_DOWN)

\* the try block of Node.status: the value it returns, or the exception
\* that leaves it (a state code without a key raises KeyError)
StatusTry(ans) ==
    IF ans.kind = "state"
    THEN IF ans.code \in DOMAIN state_code_map
         THEN [exc |-> "none", code |-> 0, value |-> state_code_map[ans.code]]
         ELSE [exc |-> "exception", code |-> 0, value |-> "none"]
    ELSE [exc |-> ans.kind, code |-> ans.code, value |-> "none"]

\* the except clauses without the last one (except Exception)
StatusExceptLibvirtOnly(t) ==
    IF t.exc = "none" THEN t.value
    ELSE IF t.exc = "libvirtError"
    THEN IF t.code = VIR_ERR_NO_DOMAIN THEN STATUS_DOWN ELSE STATUS_ERROR
    ELSE "raised"

\* the except clauses of Node.status; "raised" stands for an exception
\* that no clause catches
StatusExcept(t) ==
    IF t.exc = "none" THEN t.value
    ELSE IF t.exc = "libvirtError"
    THEN IF t.code = VIR_ERR_NO_DOMAIN THEN STATUS_DOWN ELSE STATUS_ERROR
    ELSE IF t.exc = "exception" THEN STATUS_ERROR
    ELSE "raised"

\* status without the test of self.error
StatusCallNoSticky(err, ex, d, o) ==
    IF ~ex THEN [res |-> STATUS_UNDEFINED, q |-> NoQuery]
    ELSE LET q == Query(d, o) IN [res |-> StatusExcept(StatusTry(q.ans)), q |-> q]

\* Node.status: err is self.error is not None, ex is self.exists(), d the
\* hypervisor's domain, o the driver's behaviour; res is the value returned
\* and q the query made, if any
StatusCall(err, ex, d, o) ==
    IF err THEN [res |-> STATUS_ERROR, q |-> NoQuery]
    ELSE IF ~ex THEN [res |-> STATUS_UNDEFINED, q |-> NoQuery]
    ELSE LET q == Query(d, o) IN [res |-> StatusExcept(StatusTry(q.ans)), q |-> q]

\* started() with the comparison turned round
StartedOfNot(ans) == ans.kind = "state" /\ ans.code # VIR_DOMAIN_RUNNING

\* Node.started: the bare except turns every exception into False
StartedOf(ans) == ans.kind = "state" /\ ans.code = VIR_DOMAIN_RUNNING

\* _get_xml reading attributes that were never assigned as if they were there
XmlOkUnset(f) == TRUE

\* whether _get_xml finds the attributes it reads (AttributeError if not)
XmlOk(f) == f.uuid # 0 /\ f.resources # NoResources /\ f.image # "unset"

\* _get_xml taking a megabyte for a thousand units
GetXmlDecimal(f, nets) ==
    LET c == [name |-> NodeName, uuid |-> f.uuid,
              image_path |-> Image(f.image).image_path,
              vcpus |-> f.resources.vcpu,
              memory_bytes |-> f.resources.ram_mb * 1000]
    IN [uuid |-> c.uuid, name |-> c.name, vcpu |-> c.vcpus,
        memory |-> c.memory_bytes, disk |-> c.image_path,
        interfaces |-> <<DefaultNet>>]

\* Node._get_xml: conf carries net_xml, one clause per sandbox network; the
\* template formatted with conf has the fields below and one fixed interface
GetXml(f, nets) ==
    LET net_xml_texts == [k \in 1..Len(nets) |-> nets[k]]
        c == [name |-> NodeName, uuid |-> f.uuid,
              image_path |-> Image(f.image).image_path,
              vcpus |-> f.resources.vcpu,
              memory_bytes |-> f.resources.ram_mb * 1024,
              net_xml |-> net_xml_texts]
    IN [uuid |-> c.uuid, name |-> c.name, vcpu |-> c.vcpus,
        memory |-> c.memory_bytes, disk |-> c.image_path,
        interfaces |-> <<DefaultNet>>]

NoXml == [uuid |-> 0, name |-> "none", vcpu |-> 0, memory |-> 0,
          disk |-> <<>>, interfaces |-> <<>>]

\* create that writes config.yaml nowhere the object looks for it
CreateResultNoWrite(c, dir, f, nc, u, fs) ==
    LET f2 == [f EXCEPT !.resources = nc.resources, !.services = nc.services,
                        !.image = nc.image, !.uuid = u]
    IN IF Exists(c)
       THEN [res |-> "AlreadyDefined", conf |-> c, dir |-> dir, fields |-> f]
       ELSE IF dir \/ fs # "ok"
       THEN [res |-> "OSError", conf |-> c, dir |-> dir, fields |-> f]
       ELSE [res |-> "ok", conf |-> c, dir |-> TRUE, fields |-> f2]

\* create without the exists() test, making the directory if it is missing
CreateResultOverwrite(c, dir, f, nc, u, fs) ==
    LET f2 == [f EXCEPT !.resources = nc.resources, !.services = nc.services,
                        !.image = nc.image, !.uuid = u]
    IN IF fs # "ok"
       THEN [res |-> "OSError", conf |-> c, dir |-> dir, fields |-> f]
       ELSE [res |-> "ok", conf |-> GetInfo(f2), dir |-> TRUE, fields |-> f2]

\* Node.create on file c and directory flag dir, by an object with attributes
\* f, for node_conf nc, uuid4 value u and filesystem outcome fs (the step
\* that fails: "mkdir", "image" for Image(), "open", "write"; or "ok")
CreateResult(c, dir, f, nc, u, fs) ==
    LET f1 == [f EXCEPT !.resources = nc.resources, !.services = nc.services]
        f2 == [f1 EXCEPT !.image = nc.image, !.uuid = u]
    IN IF Exists(c)
       THEN [res |-> "AlreadyDefined", conf |-> c, dir |-> dir, fields |-> f]
       ELSE IF dir \/ fs = "mkdir"
       THEN [res |-> "OSError", conf |-> c, dir |-> dir, fields |-> f]
       ELSE IF fs = "image"
       THEN [res |-> "ImageError", conf |-> c, dir |-> TRUE, fields |-> f1]
       ELSE IF fs = "open"
       THEN [res |-> "IOError", conf |-> c, dir |-> TRUE, fields |-> f2]
       ELSE IF fs = "write"
       THEN [res |-> "IOError", conf |-> PartialFile, dir |-> TRUE, fields |-> f2]
       ELSE [res |-> "ok", conf |-> GetInfo(f2), dir |-> TRUE, fields |-> f2]

\* the second part of start under a lock held since its check: a domain
\* that runs by now is seen, and nothing is created
StartActResultLocked(f, nets, d, o) ==
    IF o = "conn_none"
    THEN [res |-> "ConnectFailed", dom |-> d, create |-> "none", opened |-> 0, closed |-> 0, xml |-> NoXml]
    ELSE IF o = "conn_err"
    THEN [res |-> "libvirtError", dom |-> d, create |-> "none", opened |-> 0, closed |-> 0, xml |-> NoXml]
    ELSE IF d = Domain(VIR_DOMAIN_RUNNING)
    THEN [res |-> "ok", dom |-> d, create |-> "none", opened |-> 1, closed |-> 1, xml |-> NoXml]
    ELSE IF ~XmlOk(f)
    THEN [res |-> "AttributeError", dom |-> d, create |-> "none", opened |-> 1, closed |-> 0, xml |-> NoXml]
    ELSE IF o = "create_err"
    THEN [res |-> "libvirtError", dom |-> d, create |-> GetConn(FALSE), opened |-> 1, closed |-> 0, xml |-> GetXml(f, nets)]
    ELSE IF o = "create_none"
    THEN [res |-> "StartFailed", dom |-> d, create |-> GetConn(FALSE), opened |-> 1, closed |-> 0, xml |-> GetXml(f, nets)]
    ELSE [res |-> "ok", dom |-> Domain(VIR_DOMAIN_RUNNING), create |-> GetConn(FALSE), opened |-> 1, closed |-> 1,
          xml |-> GetXml(f, nets)]

\* the part of Node.start after the started() check, on domain d, the
\* driver behaving as o says (libvirt.open returns None or raises, createXML
\* returns None or raises)
StartActResult(f, nets, d, o) ==
    IF o = "conn_none"
    THEN [res |-> "ConnectFailed", dom |-> d, create |-> "none", opened |-> 0, closed |-> 0, xml |-> NoXml]
    ELSE IF o = "conn_err"
    THEN [res |-> "libvirtError", dom |-> d, create |-> "none", opened |-> 0, closed |-> 0, xml |-> NoXml]
    ELSE IF ~XmlOk(f)
    THEN [res |-> "AttributeError", dom |-> d, create |-> "none", opened |-> 1, closed |-> 0, xml |-> NoXml]
    ELSE IF o = "create_err"
    THEN [res |-> "libvirtError", dom |-> d, create |-> GetConn(FALSE), opened |-> 1, closed |-> 0, xml |-> GetXml(f, nets)]
    ELSE IF o = "create_none"
    THEN [res |-> "StartFailed", dom |-> d, create |-> GetConn(FALSE), opened |-> 1, closed |-> 0, xml |-> GetXml(f, nets)]
    ELSE [res |-> "ok", dom |-> Domain(VIR_DOMAIN_RUNNING), create |-> GetConn(FALSE), opened |-> 1, closed |-> 1,
          xml |-> GetXml(f, nets)]

\* the part of Node.stop after the started() check, on domain d, the driver
\* behaving as o says ("ok_kept": the hypervisor keeps a definition of the
\* destroyed domain, shut off)
StopActResult(d, o) ==
    IF o = "conn_none"
    THEN [res |-> "ConnectFailed", dom |-> d, destroy |-> "none", opened |-> 0]
    ELSE IF o = "conn_err"
    THEN [res |-> "libvirtError", dom |-> d, destroy |-> "none", opened |-> 0]
    ELSE IF o = "lookup_err" \/ ~d.defined
    THEN [res |-> "libvirtError", dom |-> d, destroy |-> "none", opened |-> 1]
    ELSE IF o = "lookup_none"
    THEN [res |-> "StopFailed", dom |-> d, destroy |-> "none", opened |-> 1]
    ELSE IF o = "destroy_err"
    THEN [res |-> "libvirtError", dom |-> d, destroy |-> GetConn(FALSE), opened |-> 1]
    ELSE [res |-> "ok", dom |-> IF o = "ok_kept" THEN Domain(VIR_DOMAIN_SHUTOFF) ELSE NoDomain,
          destroy |-> GetConn(FALSE), opened |-> 1]

\* --------------------------------------------------------------- state
\* the record of the most recent call, kept until something other than a
\* call of the object happens. ans: the case of the answer the status /
\* started() query got; query: the kind of connection that query went
\* through; create, destroy: the kind of connection a createXML /
\* destroy was issued on; contact: whether the driver was called at all;
\* opened, closed: connections opened and closed; fault: whether the driver
\* failed for a reason other than the domain not existing; xml: the
\* descriptor handed to createXML; dup: whether createXML was issued while a
\* domain of the name was running, the started() check of the same call
\* having been answered by the driver; after: the call that returned "ok", the
\* driver not failing, right before this one with nothing in between or
\* interleaved, else "other"
NoCall == [op |-> "none", res |-> "none", ans |-> "none", query |-> "none",
           create |-> "none", destroy |-> "none", contact |-> FALSE, opened |-> 0,
           closed |-> 0, fault |-> FALSE, xml |-> NoXml, dup |-> FALSE,
           after |-> "other"]

\* what a call in flight (between its started() check and its act) carries
IdleCur == [opened |-> 0, fault |-> FALSE, query |-> "none"]

Prefix(n) == [k \in 1..n |-> k]

Init ==
    /\ dirExists = FALSE
    /\ conf = NoFile
    /\ dom = NoDomain
    /\ error = FALSE
    /\ fields = NoFields
    /\ pc = "idle"
    /\ cur = IdleCur
    /\ last = NoCall
    /\ createdOK = FALSE
    /\ networks = Prefix(MaxNets)

\* the call in flight returns or raises: call is its record
Finish(call) ==
    /\ last' = [call EXCEPT !.after = IF last.res = "ok" /\ ~last.fault
                                      THEN last.op ELSE "other"]
    /\ pc' = "idle"
    /\ cur' = IdleCur

\* Node.__init__: a new Node object of the same name replaces the object
Construct ==
    /\ pc = "idle"
    /\ \E ld \in LoadOutcomes :
         LET r == IF Exists(conf) THEN Fill(conf, ld) ELSE [fields |-> NoFields, err |-> FALSE]
         IN /\ fields' = r.fields
            /\ error' = r.err
    /\ last' = NoCall
    /\ UNCHANGED <<dirExists, conf, dom, pc, cur, createdOK, networks>>

\* Node.create
Create ==
    /\ pc = "idle"
    /\ \E nc \in NodeConfs, u \in Uuids, fs \in CreateOutcomes :
         LET r == CreateResult(conf, dirExists, fields, nc, u, fs)
         IN /\ conf' = r.conf
            /\ dirExists' = r.dir
            /\ fields' = r.fields
            /\ createdOK' = (createdOK \/ r.res = "ok")
            /\ Finish([NoCall EXCEPT !.op = "create", !.res = r.res])
    /\ UNCHANGED <<dom, error, networks>>

\* Node.status
Status ==
    /\ pc = "idle"
    /\ \E o \in QueryOutcomes :
         LET r == StatusCall(error, Exists(conf), dom, o)
         IN Finish([NoCall EXCEPT !.op = "status", !.res = r.res,
                                  !.ans = AnsTag(r.q.ans), !.query = r.q.conn,
                                  !.contact = r.q.contact, !.opened = r.q.opened,
                                  !.fault = r.q.fault])
    /\ UNCHANGED <<dirExists, conf, dom, error, fields, createdOK, networks>>

\* start with the started() check made before the exists() test
StartCheckUnguarded ==
    /\ pc = "idle"
    /\ \E o \in QueryOutcomes :
         LET q == Query(dom, o)
         IN IF StartedOf(q.ans)
            THEN Finish([NoCall EXCEPT !.op = "start", !.res = "ok",
                                       !.ans = AnsTag(q.ans), !.query = q.conn,
                                       !.contact = TRUE, !.opened = q.opened,
                                       !.fault = q.fault])
            ELSE IF ~Exists(conf)
            THEN Finish([NoCall EXCEPT !.op = "start", !.res = "NotDefined",
                                       !.ans = AnsTag(q.ans), !.query = q.conn,
                                       !.contact = TRUE, !.opened = q.opened,
                                       !.fault = q.fault])
            ELSE /\ pc' = "start_act"
                 /\ cur' = [opened |-> q.opened, fault |-> q.fault, query |-> q.conn]
                 /\ UNCHANGED last
    /\ UNCHANGED <<dirExists, conf, dom, error, fields, createdOK, networks>>

\* Node.start up to and including the started() check
StartCheck ==
    /\ pc = "idle"
    /\ IF ~Exists(conf)
       THEN Finish([NoCall EXCEPT !.op = "start", !.res = "NotDefined"])
       ELSE \E o \in QueryOutcomes :
              LET q == Query(dom, o)
              IN IF StartedOf(q.ans)
                 THEN Finish([NoCall EXCEPT !.op = "start", !.res = "ok",
                                            !.ans = AnsTag(q.ans), !.query = q.conn,
                                            !.contact = TRUE, !.opened = q.opened,
                                            !.fault = q.fault])
                 ELSE /\ pc' = "start_act"
                      /\ cur' = [opened |-> q.opened, fault |-> q.fault, query |-> q.conn]
                      /\ UNCHANGED last
    /\ UNCHANGED <<dirExists, conf, dom, error, fields, createdOK, networks>>

\* Node.start from _get_conn(readonly=False) on
StartAct ==
    /\ pc = "start_act"
    /\ \E o \in StartOutcomes :
         LET r == StartActResult(fields, networks, dom, o)
         IN /\ dom' = r.dom
            /\ Finish([NoCall EXCEPT !.op = "start", !.res = r.res,
                                     !.create = r.create, !.query = cur.query, !.contact = TRUE,
                                     !.opened = cur.opened + r.opened,
                                     !.closed = r.closed,
                                     !.fault = (cur.fault \/ r.res # "ok"),
                                     !.xml = r.xml,
                                     !.dup = (r.create # "none" /\ ~cur.fault
                                              /\ dom = Domain(VIR_DOMAIN_RUNNING))])
    /\ UNCHANGED <<dirExists, conf, error, fields, createdOK, networks>>

\* Node.stop up to and including the started() check
StopCheck ==
    /\ pc = "idle"
    /\ IF ~Exists(conf)
       THEN Finish([NoCall EXCEPT !.op = "stop", !.res = "NotDefined"])
       ELSE \E o \in QueryOutcomes :
              LET q == Query(dom, o)
              IN IF ~StartedOf(q.ans)
                 THEN Finish([NoCall EXCEPT !.op = "stop", !.res = "ok",
                                            !.ans = AnsTag(q.ans), !.query = q.conn,
                                            !.contact = TRUE, !.opened = q.opened,
                                            !.fault = q.fault])
                 ELSE /\ pc' = "stop_act"
                      /\ cur' = [opened |-> q.opened, fault |-> q.fault, query |-> q.conn]
                      /\ UNCHANGED last
    /\ UNCHANGED <<dirExists, conf, dom, error, fields, createdOK, networks>>

\* Node.stop from _get_domain(readonly=False) on
StopAct ==
    /\ pc = "stop_act"
    /\ \E o \in StopOutcomes :
         LET r == StopActResult(dom, o)
         IN /\ dom' = r.dom
            /\ Finish([NoCall EXCEPT !.op = "stop", !.res = r.res,
                                     !.destroy = r.destroy, !.query = cur.query, !.contact = TRUE,
                                     !.opened = cur.opened + r.opened,
                                     !.fault = (cur.fault \/ r.res # "ok")])
    /\ UNCHANGED <<dirExists, conf, error, fields, createdOK, networks>>

\* the hypervisor, or another client of it, changes the domain of this name
ExtHypervisor ==
    /\ \E d \in DomVals \ {dom} : dom' = d
    /\ last' = NoCall
    /\ UNCHANGED <<dirExists, conf, error, fields, pc, cur, createdOK, networks>>

\* config.yaml is damaged or repaired outside the program
ExtFile ==
    /\ Exists(conf)
    /\ \/ conf.kind = "record" /\ conf' = PartialFile
       \/ conf.kind = "partial" /\ \E nc \in NodeConfs, u \in Uuids :
             conf' = GetInfo([uuid |-> u, resources |-> nc.resources,
                              services |-> nc.services, image |-> nc.image])
    /\ last' = NoCall
    /\ UNCHANGED <<dirExists, dom, error, fields, pc, cur, createdOK, networks>>

\* Node.create of another Node object of the same name (another process, or
\* another handle of this one) that returns: the record appears on disk, and
\* this object's attributes stay as they are
ExtCreate ==
    /\ \E nc \in NodeConfs, u \in Uuids :
         LET r == CreateResult(conf, dirExists, NoFields, nc, u, "ok")
         IN /\ r.res = "ok"
            /\ conf' = r.conf
            /\ dirExists' = r.dir
    /\ createdOK' = TRUE
    /\ last' = NoCall
    /\ UNCHANGED <<dom, error, fields, pc, cur, networks>>

Next ==
    \/ Construct
    \/ Create
    \/ Status
    \/ StartCheck
    \/ StartAct
    \/ StopCheck
    \/ StopAct
    \/ ExtHypervisor
    \/ ExtFile
    \/ ExtCreate

Spec == Init /\ [][Next]_vars

\* The descriptor: start() of a defined, loaded node, over every record and
\* every network list within the bounds
InitXml ==
    /\ dirExists = TRUE
    /\ fields \in Records
    /\ conf = GetInfo(fields)
    /\ dom = NoDomain
    /\ error = FALSE
    /\ pc = "idle"
    /\ cur = IdleCur
    /\ last = NoCall
    /\ createdOK = TRUE
    /\ networks \in {Prefix(n) : n \in 0..MaxNets}

NextXml ==
    \/ StartCheck
    \/ StartAct

SpecXml == InitXml /\ [][NextXml]_vars

\* ------------------------------------------------------------- claims
\* the hypervisor's domain-state enumeration: NoState .. Suspended
DomainStates == VIR_DOMAIN_NOSTATE..VIR_DOMAIN_PMSUSPENDED
StatusValues == {STATUS_UNDEFINED, STATUS_UP, STATUS_ERROR, STATUS_DOWN}
UpStates == {VIR_DOMAIN_RUNNING, VIR_DOMAIN_BLOCKED, VIR_DOMAIN_PAUSED}
DownStates == {VIR_DOMAIN_SHUTDOWN, VIR_DOMAIN_SHUTOFF, VIR_DOMAIN_PMSUSPENDED}

\* The last call was status, on a record that is present and loaded without
\* error, and its query got the domain's state. (last is kept only while
\* nothing but calls happens, and status changes nothing: error, conf and dom
\* are what the call saw.)
StatusGotState == last.op = "status" /\ ~error /\ Exists(conf) /\ last.ans = "state"

\* what status returns when the driver answers
NodeStatus == StatusCall(error, Exists(conf), dom, "ok").res

C2_DecisionTable ==
    last.op = "status" =>
        IF error THEN last.res = STATUS_ERROR
        ELSE IF ~Exists(conf) THEN last.res = STATUS_UNDEFINED
        ELSE /\ last.ans = "nodomain" => last.res = STATUS_DOWN
             /\ (last.ans = "state" /\ dom.state \in UpStates) => last.res = STATUS_UP
             /\ (last.ans = "state" /\ dom.state \in DownStates) => last.res = STATUS_DOWN
             /\ (last.ans = "state" /\ dom.state = VIR_DOMAIN_CRASHED) => last.res = STATUS_ERROR
             /\ last.ans \in {"lverr", "exception"} => last.res = STATUS_ERROR

\* the load error takes precedence over a running domain
C2_Witness ==
    last.op = "status" /\ error /\ dom = Domain(VIR_DOMAIN_RUNNING) /\ last.res = STATUS_ERROR

\* C3: start is idempotent. For a defined node (record present and loaded),
\* a start() that follows a start() that returned, with nothing in between
\* and the driver answering, returns with no createXML issued, and the
\* node's status is Up.
C3_StartIdempotent ==
    (last.op = "start" /\ last.after = "start" /\ ~last.fault /\ ~error)
        => /\ last.res = "ok"
           /\ last.create = "none"
           /\ NodeStatus = STATUS_UP

C3_Witness ==
    /\ last.op = "start" /\ last.after = "start" /\ ~last.fault /\ ~error
    /\ last.res = "ok" /\ last.create = "none" /\ dom = Domain(VIR_DOMAIN_RUNNING)

\* a step in which the idle object's start() / stop() is called: the call
\* either returns or raises at once (its record becomes last) or goes on to
\* its second part
StartCalled == pc = "idle" /\ (pc' = "start_act" \/ (pc' = "idle" /\ last'.op = "start"))
StopCalled == pc = "idle" /\ (pc' = "stop_act" \/ (pc' = "idle" /\ last'.op = "stop"))
\* a step in which create() is called, and returns or raises
CreateCalled == pc = "idle" /\ pc' = "idle" /\ last'.op = "create"

\* no live domain of the node's name: none at all, or one that is shut off,
\* shutting down or suspended
NotLive(d) == ~d.defined \/ d.state \in DownStates

\* C4: stop is idempotent. On a defined node with no live domain of its name,
\* and on one whose previous call was a stop() that returned (the driver
\* having answered), stop() returns at its started() check, whatever the
\* driver does: success, no destroy issued, the domain untouched.
C4_StopIdempotent ==
    [][(StopCalled /\ Exists(conf)
          /\ (NotLive(dom) \/ (last.op = "stop" /\ last.res = "ok" /\ ~last.fault)))
        => (pc' = "idle" /\ last'.op = "stop" /\ last'.res = "ok"
            /\ last'.destroy = "none" /\ dom' = dom)]_vars

\* a second stop() right after a stop() that destroyed the domain
C4_Witness ==
    /\ last.op = "stop" /\ last.after = "stop" /\ last.res = "ok"
    /\ last.destroy = "none" /\ NotLive(dom)

\* C5: start() and stop() on a node with no record fail with NotDefined and
\* make no driver contact: no connection, lookup, create or destroy, and the
\* hypervisor's domain is unchanged.
C5_UndefinedNoContact ==
    [][((StartCalled \/ StopCalled) /\ ~Exists(conf))
        => (pc' = "idle" /\ last'.res = "NotDefined" /\ ~last'.contact
            /\ last'.opened = 0 /\ last'.ans = "none"
            /\ last'.create = "none" /\ last'.destroy = "none" /\ dom' = dom)]_vars

\* start() of an undefined node, with a running domain of its name around
C5_Witness ==
    /\ last.op = "start" /\ last.res = "NotDefined" /\ ~Exists(conf)
    /\ dom = Domain(VIR_DOMAIN_RUNNING)

\* C6: a create() that returned, followed at once by status on the same
\* node (defined, not started: no domain of its name; the driver answering),
\* yields Down.
C6_CreateThenStatus ==
    (last.op = "status" /\ last.after = "create" /\ ~last.fault /\ ~dom.defined)
        => last.res = STATUS_DOWN

C6_Witness ==
    /\ last.op = "status" /\ last.after = "create" /\ ~last.fault /\ ~dom.defined
    /\ last.res = STATUS_DOWN /\ conf.kind = "record"

\* C7: create() on a name whose record exists fails with AlreadyDefined and
\* leaves the persisted record (and the directory) as it was.
C7_CreateNotIdempotent ==
    [][(CreateCalled /\ Exists(conf))
        => (last'.res = "AlreadyDefined" /\ conf' = conf /\ dirExists' = dirExists)]_vars

C7_Witness ==
    last.op = "create" /\ last.res = "AlreadyDefined" /\ conf.kind = "record" /\ last.after = "create"

\* C8 as claimed: the descriptor built for start() with N distinct networks
\* has exactly N network-interface clauses, each referencing a distinct
\* supplied network.
C8_AsClaimed ==
    last.create # "none" =>
        /\ Len(last.xml.interfaces) = Len(networks)
        /\ {last.xml.interfaces[k] : k \in 1..Len(last.xml.interfaces)}
              = {networks[k] : k \in 1..Len(networks)}

\* C9 as claimed: the record exists on durable storage if and only if some
\* create() of the name has returned successfully.
C9_AsClaimed == Exists(conf) <=> createdOK

\* C10: status never raises. Whatever the record's state and the driver's
\* behaviour, it returns one of the four status values, and every driver
\* failure other than the no-domain error (connection failure, lookup or
\* query failure, a state value without a key) returns Error.
C10_StatusNeverRaises ==
    last.op = "status" =>
        /\ last.res \in StatusValues
        /\ last.ans \in {"lverr", "exception"} => last.res = STATUS_ERROR
        /\ (last.ans = "state" /\ dom.state \notin DomainStates) => last.res = STATUS_ERROR

\* a state value state_code_map has no key for
C10_Witness ==
    StatusGotState /\ dom.state \notin DomainStates /\ last.res = STATUS_ERROR

\* C11: descriptor unit conversion. In the descriptor start() hands to
\* createXML, the memory field is the record's ram_mb times 1024 (a whole
\* multiple of 1024 whose quotient is ram_mb, for every ram_mb >= 1) and the
\* vcpu field is the record's vcpu count.
C11_UnitConversion ==
    last.create # "none" =>
        /\ fields.resources.ram_mb >= 1
        /\ last.xml.memory % 1024 = 0
        /\ last.xml.memory \div 1024 = fields.resources.ram_mb
        /\ last.xml.vcpu = fields.resources.vcpu

\* the largest record of the range, started
C11_Witness ==
    /\ last.op = "start" /\ last.res = "ok" /\ last.create # "none"
    /\ fields.resources = [vcpu |-> MaxVcpu, ram_mb |-> MaxRam]
    /\ last.xml.memory = MaxRam * 1024 /\ last.xml.vcpu = MaxVcpu

\* a step in which start() is called and its started() query, if it makes
\* one, is answered by the driver
StartCalledAnswered ==
    /\ StartCalled
    /\ ~(IF pc' = "start_act" THEN cur'.fault ELSE last'.fault)

\* C12 as claimed: the started check is true for exactly the domain states
\* status maps to Up. Whenever a defined node's status is Up (domain Running,
\* Blocked or Paused), start() returns success at its check: no read-write
\* connection opened, no createXML issued.
C12_AsClaimed ==
    [][(StartCalledAnswered /\ NodeStatus = STATUS_UP)
        => (pc' = "idle" /\ last'.op = "start" /\ last'.res = "ok"
            /\ last'.create = "none")]_vars

\* C13 as claimed: for a defined node, a status that follows at once a
\* stop() that returned success (nothing external in between, the driver
\* answering) is never Up.
C13_AsClaimed ==
    (last.op = "status" /\ last.after = "stop" /\ ~last.fault) => last.res # STATUS_UP

\* C14 as claimed: stop() on a defined node whose domain is running, the
\* driver failing to connect (no connection was opened by the call), fails
\* with StopFailed; it does not return success with the domain still running
\* and no destroy issued.
C14_AsClaimed ==
    (last.op = "stop" /\ Exists(conf) /\ dom = Domain(VIR_DOMAIN_RUNNING)
        /\ last.fault /\ last.opened = 0)
        => last.res = "StopFailed"

\* C15 as claimed: create() on a name without a record whose directory is
\* already there (left by a create that failed after mkdir) fails with
\* AlreadyDefined.
C15_AsClaimed ==
    [][(CreateCalled /\ ~Exists(conf) /\ dirExists) => last'.res = "AlreadyDefined"]_vars

\* C16 as claimed: when status, start() or stop() has returned or raised,
\* every connection the call opened has been closed by it.
C16_AsClaimed ==
    last.op \in {"status", "start", "stop"} => last.opened - last.closed = 0

\* C17: a read-only connection is never used to change the hypervisor.
\* Every createXML of start() and every destroy of stop() goes through a
\* connection opened read-write, and the query of status and of the
\* started() check goes through a connection opened read-only.
C17_ReadOnlyNeverMutates ==
    /\ last.create \in {"none", "rw"}
    /\ last.destroy \in {"none", "rw"}
    /\ last.query \in {"none", "ro"}
    /\ cur.query \in {"none", "ro"}
    /\ (last.op = "status" /\ last.opened > 0) => last.query = "ro"
    /\ (pc # "idle" /\ cur.opened > 0) => cur.query = "ro"

\* a stop() that destroyed the domain: the check on a read-only connection,
\* the destroy on a read-write one
C17_Witness ==
    /\ last.op = "stop" /\ last.res = "ok"
    /\ last.query = "ro" /\ last.destroy = "rw" /\ last.opened = 2

\* a step that is Node.__init__ (a new handle replaces this one) or changes
\* nothing: the steps of every other actor change the file or the domain,
\* and a call of the object leaves its record in last or moves pc
Constructed == pc' = pc /\ last' = NoCall /\ conf' = conf /\ dom' = dom /\ dirExists' = dirExists

\* C18: the load error is sticky. While a handle whose record failed to load
\* lives (no new handle is constructed), whatever any call or any other actor
\* does to the file or the hypervisor, the error stays, no step reloads the
\* attributes, and every status returns Error without a query.
C18_StickyLoadError ==
    [][(error /\ ~Constructed)
        => /\ error'
           /\ fields' = fields
           /\ last'.op = "status" => (last'.res = STATUS_ERROR /\ ~last'.contact
                                       /\ last'.opened = 0)]_vars

\* status of a handle in error, the file being a whole record (repaired
\* since, or unreadable only at load time) and the domain running
C18_Witness ==
    /\ error /\ last.op = "status" /\ last.res = STATUS_ERROR /\ ~last.contact
    /\ conf.kind = "record" /\ dom = Domain(VIR_DOMAIN_RUNNING)

\* C19: the check and the create of start() are not atomic. At its check,
\* start() returns without createXML when the driver says the domain runs;
\* once past the check it looks no more: with the read-write connection open
\* and the attributes there it issues createXML whatever the domain's state
\* is by then. (C19_Witness is the state the claim says is reachable.)
C19_CheckThenAct ==
    [][/\ (StartCalledAnswered /\ Exists(conf) /\ dom = Domain(VIR_DOMAIN_RUNNING))
           => (pc' = "idle" /\ last'.res = "ok" /\ last'.create = "none")
       /\ (pc = "start_act" /\ pc' = "idle" /\ XmlOk(fields) /\ last'.opened > cur.opened)
           => (last'.create # "none"
               /\ last'.dup = (~cur.fault /\ dom = Domain(VIR_DOMAIN_RUNNING)))]_vars

\* start() has issued createXML for a domain that was running, its own check
\* having been answered: the domain was started by someone else in between
C19_Witness ==
    last.op = "start" /\ last.create # "none" /\ last.dup /\ dom = Domain(VIR_DOMAIN_RUNNING)

\* a handle that holds no loaded record: the load failed at construction, or
\* nothing was loaded or assigned (the record, if there is one, was written
\* by another handle after this one was constructed)
NoLoadedFields == error \/ fields = NoFields

\* a step in which a start() call returns or raises
StartReturned == pc' = "idle" /\ (StartCalled \/ pc = "start_act")

\* C20 as claimed: start() on a handle that holds no loaded record never
\* issues createXML, leaves the domain as it is, and ends in an error.
C20_AsClaimed ==
    [][(StartReturned /\ NoLoadedFields)
        => (last'.create = "none" /\ dom' = dom /\ last'.res # "ok")]_vars

\* C20 amended: start() on a handle that holds no loaded record never issues
\* createXML and leaves the domain as it is; it ends in an error, except
\* that it returns at its started() check when that finds the domain
\* running.
C20_NoCreateWithoutFields ==
    [][(StartReturned /\ NoLoadedFields)
        => /\ last'.create = "none"
           /\ dom' = dom
           /\ last'.res = "ok"
                => (pc = "idle" /\ last'.ans = "state" /\ dom = Domain(VIR_DOMAIN_RUNNING))]_vars

\* start() of a handle constructed before another handle wrote the record:
\* it got as far as _get_xml and no further
C20_Witness ==
    /\ last.op = "start" /\ last.res = "AttributeError" /\ last.create = "none"
    /\ ~error /\ fields = NoFields /\ conf.kind = "record" /\ last.opened = 2

====
